---- MODULE Spec2Model ----
(***************************************************************************)
(* Manifold Mixup callbacks (fastai v1): manifold_mixup.py (the "basic",   *)
(* two-slot variant) and interleaved_manifold_mixup.py (the one-slot       *)
(* variant).  One ManifoldMixupCallback instance is registered on a        *)
(* Learner and is driven through on_train_begin, on_batch_begin, the       *)
(* model's forward pass (which fires the registered forward hooks),        *)
(* on_loss_begin and on_train_end.                                         *)
(*                                                                         *)
(* Tensors are sequences of per-sample values; a weight lam[i] stands for   *)
(* the real number lam[i] / LamDen, and activations are exact fractions     *)
(* with a power of LamDen as denominator.  The network is the list of its   *)
(* modules in traversal order (modules; module 0 is learn.model itself)     *)
(* and the order in which the modules return in one evaluation (sched).     *)
(***************************************************************************)
EXTENDS Integers, Sequences, FiniteSets, TLC

\* ---- bounds of the model -------------------------------------------------
BatchSize == 2
NumModules == 2
MaxCalls == 3
MaxBatches == 2
LamDen == 2

\* ---- values ----------------------------------------------------------------
None == <<>>

RECURSIVE Pow(_, _)
Pow(b, e) == IF e = 0 THEN 1 ELSE b * Pow(b, e - 1)

Max(a, b) == IF a >= b THEN a ELSE b

\* A tensor is the sequence of its samples.  A sample of an input, activation or
\* output is the number n / LamDen^e, written <<n, e>> in lowest terms.
RECURSIVE Norm(_)
Norm(v) == IF v[2] > 0 /\ v[1] % LamDen = 0 THEN Norm(<<v[1] \div LamDen, v[2] - 1>>) ELSE v

Samples == 1..BatchSize

\* a full batch of the data loader: input sample i and its label
BatchInput == [i \in Samples |-> <<i, 0>>]
BatchTarget == [i \in Samples |-> i - 1]

\* the sizes of the batches the data loader yields (the last one may be partial)
BatchSizes == 1..BatchSize

\* torch.randperm(n)
Perms(n) == {p \in [1..n -> 1..n] : \A i, j \in 1..n : p[i] = p[j] => i = j}

\* t[shuffle]
Index(t, shuffle) == [i \in 1..Len(shuffle) |-> t[shuffle[i]]]

\* the beta draws used as they are
LamOf_without_max(draw) == draw

\* np.concatenate([lambd[:,None], 1-lambd[:,None]], 1).max(1)
LamOf(draw) == [i \in 1..Len(draw) |-> Max(draw[i], LamDen - draw[i])]

\* a * (1 - l) + b * l for one sample, the weight being l / LamDen
BlendSample(a, b, l) ==
    LET e == Max(a[2], b[2]) IN
    Norm(<<a[1] * Pow(LamDen, e - a[2]) * (LamDen - l) + b[1] * Pow(LamDen, e - b[2]) * l,
           e + 1>>)

\* tensors of these leading dimensions can be combined elementwise: each is 1 or the
\* largest of them (broadcasting); otherwise the operation raises RuntimeError
Broadcastable(own, other, lam) ==
    LET n == Max(Len(own), Max(Len(other), Len(lam)))
    IN Len(own) \in {1, n} /\ Len(other) \in {1, n} /\ Len(lam) \in {1, n}

\* row i of tensor t broadcast along its leading dimension
Row(t, i) == IF Len(t) = 1 THEN t[1] ELSE t[i]

\* own * (1 - lam) + other * lam, lam broadcast per sample (_adapt_dim)
Blend(own, other, lam) ==
    [i \in 1..Max(Len(own), Max(Len(other), Len(lam))) |->
        BlendSample(Row(own, i), Row(other, i), Row(lam, i))]

\* the computation of module j itself, applied to the activation x it has when the
\* modules it invokes have returned: per sample 2 * x + j + 1
Module(j, x) ==
    [i \in 1..Len(x) |-> Norm(<<2 * x[i][1] + (j + 1) * Pow(LamDen, x[i][2]), x[i][2]>>)]

\* ManifoldMixupModule j wraps a module of the network: self.module is a sub-module,
\* the one that follows the wrapper in list(model.modules()).  (The last module of the
\* traversal has no sub-module: as a wrapper it wraps a callable that is no module.)
wraps_module(mods, j) == mods[j + 1] = "ManifoldMixupModule" /\ j + 1 < Len(mods)

\* what module j returns on the activation x reached when the modules it invokes have
\* returned.  ManifoldMixupModule.forward is `return self.module(x)`: the wrapper hands
\* on what the wrapped module returned; any other module applies its computation.
ManifoldMixupModule_forward(mods, j, x) == IF wraps_module(mods, j) THEN x ELSE Module(j, x)

\* sequences of at most MaxCalls module returns
Scheds == UNION {[1..n -> 0..(NumModules - 1)] : n \in 1..MaxCalls}

\* s is the order in which the modules of a network return (and fire their forward
\* hooks) in one evaluation learn.model(x): learn.model, module 0, returns once and
\* last, after the modules it invoked; a wrapper returns right after the module it
\* wraps, which is invoked through the wrapper only
IsSched(mods, s) ==
    /\ Len(s) >= 1 /\ s[Len(s)] = 0
    /\ \A i \in 1..(Len(s) - 1) : s[i] # 0
    /\ \A i \in 1..Len(s) :
          wraps_module(mods, s[i]) => (i > 1 /\ s[i - 1] = s[i] + 1)
    /\ \A i \in 1..Len(s) :
          (s[i] >= 1 /\ wraps_module(mods, s[i] - 1)) => (i < Len(s) /\ s[i + 1] = s[i] - 1)

\* the network in which every module invokes the one after it in the traversal once
\* and then applies its own computation: the modules return in reverse order
Chain(mods) == [i \in 1..Len(mods) |-> Len(mods) - i]

\* a network of NumModules plain modules
PlainModules == [i \in 1..NumModules |-> "Linear"]

Reductions == {"mean", "sum", "none"}

\* the loss functions a Learner may carry: with a `reduction` attribute or without
Criteria == {[has_reduction |-> TRUE, reduction |-> r] : r \in Reductions}
            \cup {[has_reduction |-> FALSE, reduction |-> "unset"]}

\* ---- the candidate modules ----------------------------------------------------
\* the kinds of module the models are built of
ModuleKinds == {"Linear", "ManifoldMixupModule", "Sequential", "Dropout", "BatchNorm1d", "LSTM"}

\* classes of modules that should be avoided when using mixup
non_mixable_module_types ==
    {"Sequential", "Dropout", "Dropout2d", "Dropout3d", "AlphaDropout",
     "BatchNorm1d", "BatchNorm2d", "BatchNorm3d", "SyncBatchNorm",
     "LSTM", "LSTMCell", "GRU", "GRUCell", "AWD_LSTM",
     "RNN", "RNNBase", "RNNCell", "RNNCellBase"}

\* _is_mixable(m), m given by its kind
is_mixable(kind) == kind \notin non_mixable_module_types

\* list(model.modules()): module j of the model is the one of kind mods[j + 1]
ModuleIds(mods) == [i \in 1..Len(mods) |-> i - 1]

\* a selection that returns the empty list instead of raising
get_module_list_unchecked(var, mods, only) ==
    [raises |-> FALSE,
     module_list |-> IF only
                     THEN SelectSeq(ModuleIds(mods), LAMBDA j : mods[j + 1] = "ManifoldMixupModule")
                     ELSE IF var = "basic"
                          THEN SelectSeq(ModuleIds(mods), LAMBDA j : is_mixable(mods[j + 1]))
                          ELSE ModuleIds(mods)]

\* _get_module_list(model, use_only_mixup_modules) of manifold_mixup.py and the
\* selection in __init__ of the interleaved variant (only = not mixup_all):
\* whether it raises ValueError, and the list it returns otherwise
get_module_list(var, mods, only) ==
    LET module_list_ ==
            IF only
            THEN SelectSeq(ModuleIds(mods), LAMBDA j : mods[j + 1] = "ManifoldMixupModule")
            ELSE IF var = "basic"
                 THEN SelectSeq(ModuleIds(mods), LAMBDA j : is_mixable(mods[j + 1]))
                 ELSE ModuleIds(mods)
    IN [raises |-> Len(module_list_) = 0, module_list |-> module_list_]

VARIABLES
    variant,        \* "basic" (manifold_mixup.py) or "interleaved"
    sched,          \* learn.model: the modules in the order they return in an evaluation
    modules,        \* learn.model: the kind of each module of list(model.modules())
    module_list,    \* self.module_list
    cb,             \* the fields of the ManifoldMixupCallback instance
    hooks,          \* the forward hooks registered on the model, in order
    nhandles,       \* number of hook handles created so far
    criterion,      \* the user's loss function object
    loss_func,      \* learn.loss_func
    loss0,          \* the loss function the Learner was given (never changes)
    pc,             \* where the training loop is
    train,          \* the phase of the current batch
    last_input, last_target, last_output,   \* the driver's batch state
    last_loss,      \* the loss of the batch: loss_func(out, *yb)
    stack,          \* call stack of the forward pass
    nbatch,         \* batches started so far
    exc,            \* the exception that ended the last forward / handler
    warnings,       \* number of warnings emitted
    hist            \* observation of the current batch (not program state)

vars == <<variant, sched, modules, module_list, cb, hooks, nhandles, criterion, loss_func, loss0,
          pc, train, last_input, last_target, last_output, last_loss, stack, nbatch, exc,
          warnings, hist>>

model_vars == <<variant, sched, modules, module_list, loss0>>
loss_vars == <<criterion, loss_func>>
batch_vars == <<train, last_input, last_target, last_output, last_loss>>

\* ---- ManifoldMixupLoss ----------------------------------------------------
NoAdapter == [kind |-> "criterion", uses |-> "none", old_red |-> "unset",
              has_old_crit |-> FALSE, reduction |-> "unset"]

\* ManifoldMixupLoss.__init__(criterion, reduction='mean')
ManifoldMixupLoss(crit) ==
    IF crit.has_reduction
    THEN [adapter |-> [kind |-> "ManifoldMixupLoss", uses |-> "criterion",
                       old_red |-> crit.reduction, has_old_crit |-> FALSE,
                       reduction |-> "mean"],
          criterion |-> [crit EXCEPT !.reduction = "none"]]
    ELSE [adapter |-> [kind |-> "ManifoldMixupLoss", uses |-> "partial",
                       old_red |-> "unset", has_old_crit |-> TRUE,
                       reduction |-> "mean"],
          criterion |-> crit]

\* get_old that hands the criterion back with the reduction the adapter forced on it
get_old_without_restore(adapter, crit) ==
    IF adapter.has_old_crit \/ adapter.old_red # "unset"
    THEN [kind |-> "criterion", criterion |-> crit]
    ELSE [kind |-> "None", criterion |-> crit]

\* ManifoldMixupLoss.get_old(): the function returned and the criterion object after it
get_old(adapter, crit) ==
    IF adapter.has_old_crit
    THEN [kind |-> "criterion", criterion |-> crit]
    ELSE IF adapter.old_red # "unset"
         THEN [kind |-> "criterion", criterion |-> [crit EXCEPT !.reduction = adapter.old_red]]
         ELSE [kind |-> "None", criterion |-> crit]

\* ---- the loss of a batch ------------------------------------------------------
RECURSIVE Gcd(_, _)
Gcd(a, b) == IF b = 0 THEN a ELSE Gcd(b, a % b)

Abs(n) == IF n < 0 THEN -n ELSE n

\* a + b for two samples
AddSample(a, b) ==
    LET e == Max(a[2], b[2]) IN
    Norm(<<a[1] * Pow(LamDen, e - a[2]) + b[1] * Pow(LamDen, e - b[2]), e>>)

RECURSIVE SumSamples(_)
SumSamples(t) == IF t = <<>> THEN <<0, 0>> ELSE AddSample(Head(t), SumSamples(Tail(t)))

\* the scalar n / d, in lowest terms
Ratio(n, d) == LET g == Gcd(Abs(n), d) IN <<n \div g, d \div g>>

\* a loss tensor t after the reduction: t.mean(), t.sum() or t itself;
\* <<"scalar", n / d>> or <<"vector", t>>
reduce(reduction, t) ==
    LET total == SumSamples(t) IN
    IF reduction = "mean" THEN <<"scalar", Ratio(total[1], Pow(LamDen, total[2]) * Len(t))>>
    ELSE IF reduction = "sum" THEN <<"scalar", Ratio(total[1], Pow(LamDen, total[2]))>>
    ELSE <<"vector", t>>

\* the user's loss function with reduction 'none': the absolute error of each sample
\* (nn.L1Loss); operands of leading dimensions that cannot be broadcast raise
criterion_none(output, target) ==
    IF ~Broadcastable(output, target, target)
    THEN [raises |-> TRUE, val |-> None]
    ELSE [raises |-> FALSE,
          val |-> [i \in 1..Max(Len(output), Len(target)) |->
                     LET o == Row(output, i) IN
                     Norm(<<Abs(o[1] - Row(target, i) * Pow(LamDen, o[2])), o[2]>>)]]

\* the reduction with which a loss function reduces when it is called as given
\* (a function without the attribute reduces by its default, 'mean')
reduction_of(crit) == IF crit.has_reduction THEN crit.reduction ELSE "mean"

\* the user's loss function called on a batch: criterion(output, target)
criterion_forward(crit, output, target) ==
    LET l == criterion_none(output, target) IN
    IF l.raises THEN [raises |-> TRUE, loss |-> None]
    ELSE [raises |-> FALSE, loss |-> reduce(reduction_of(crit), l.val)]

\* the two losses blended with the weights exchanged: lam on the first target
blend_losses_lam_on_first(loss1, loss2, lam) == Blend(loss2, loss1, lam)

\* finalLoss = loss1 * (1-lam) + loss2 * lam
blend_losses(loss1, loss2, lam) == Blend(loss1, loss2, lam)

\* ManifoldMixupLoss.forward up to the reduction: finalLoss.  self.criterion reduces
\* with 'none' (set by __init__ on the criterion, or bound by partial)
finalLoss(output, target) ==
    IF Len(target) # 3
    THEN criterion_none(output, target[1])
    ELSE LET loss1 == criterion_none(output, target[1])
             loss2 == criterion_none(output, target[2])
         IN IF loss1.raises \/ loss2.raises THEN [raises |-> TRUE, val |-> None]
            ELSE IF ~Broadcastable(loss1.val, loss2.val, target[3])
            THEN [raises |-> TRUE, val |-> None]
            ELSE [raises |-> FALSE, val |-> blend_losses(loss1.val, loss2.val, target[3])]

\* ManifoldMixupLoss.forward(output, *target)
ManifoldMixupLoss_forward(adapter, output, target) ==
    LET l == finalLoss(output, target) IN
    IF l.raises THEN [raises |-> TRUE, loss |-> None]
    ELSE [raises |-> FALSE, loss |-> reduce(adapter.reduction, l.val)]

\* ---- the callback -----------------------------------------------------------
\* ManifoldMixupCallback.__init__
NewCallback(sym, inp, only) ==
    [use_only_mixup_modules |-> only,
     use_input_mixup |-> inp,
     use_symmetric_batch |-> sym,
     lam |-> None,
     input |-> None,
     intermediate_output1 |-> None,
     intermediate_output2 |-> None,
     output |-> None,
     mixup_hook |-> None,
     is_input_mixup |-> "None",
     warning_raised |-> FALSE]

\* observation of a batch before it starts (nthird counts over the whole run the
\* firings that found both slots filled; the other fields are per batch)
NoHist == [orig_input |-> None, orig_target |-> None, k |-> -2, shuffle |-> None,
           firings |-> <<>>, nevals |-> 0, ndone |-> 0, maxdepth |-> 0,
           nested_ret |-> None, nthird |-> 0, finished |-> FALSE, clean |-> TRUE]

\* the state after the callback was constructed, for the given ways to choose the
\* variant, the model and the loss function
InitWith(variants, scheds, flags, criteria) ==
    /\ variant \in variants
    /\ sched \in scheds
    /\ modules = PlainModules
    /\ module_list = get_module_list(variant, modules, FALSE).module_list
    /\ \E sym \in flags, inp \in flags : cb = NewCallback(sym, inp, FALSE)
    /\ hooks = <<>>
    /\ nhandles = 0
    /\ criterion \in criteria
    /\ loss0 = criterion
    /\ loss_func = NoAdapter
    /\ pc = "idle"
    /\ train = FALSE
    /\ last_input = None
    /\ last_target = None
    /\ last_output = None
    /\ last_loss = None
    /\ stack = <<>>
    /\ nbatch = 0
    /\ exc = "none"
    /\ warnings = 0
    /\ hist = NoHist

\* every variant, network of plain modules and flag setting, with a loss function of
\* reduction 'mean'
Init == InitWith({"basic", "interleaved"}, {s \in Scheds : IsSched(PlainModules, s)}, BOOLEAN,
                 {[has_reduction |-> TRUE, reduction |-> "mean"]})

\* every loss function, for the default flags and the networks whose modules return at
\* most once per evaluation
InitLoss == InitWith({"basic"},
                     {s \in Scheds : IsSched(PlainModules, s)
                                      /\ \A i, j \in 1..Len(s) : s[i] = s[j] => i = j},
                     {TRUE}, Criteria)

\* the state in which ManifoldMixupCallback(learn, ...) is about to be constructed,
\* for every chain of modules of ModuleKinds and either selection policy
InitBuild ==
    /\ variant \in {"basic", "interleaved"}
    /\ modules \in [1..NumModules -> ModuleKinds]
    /\ sched = Chain(modules)
    /\ module_list = <<>>
    /\ \E only \in BOOLEAN : cb = NewCallback(TRUE, FALSE, only)
    /\ hooks = <<>>
    /\ nhandles = 0
    /\ criterion = [has_reduction |-> TRUE, reduction |-> "mean"]
    /\ loss0 = criterion
    /\ loss_func = NoAdapter
    /\ pc = "new"
    /\ train = FALSE
    /\ last_input = None
    /\ last_target = None
    /\ last_output = None
    /\ last_loss = None
    /\ stack = <<>>
    /\ nbatch = 0
    /\ exc = "none"
    /\ warnings = 0
    /\ hist = NoHist

\* ManifoldMixupCallback.__init__: the selection of the candidate modules
Construct ==
    /\ pc = "new"
    /\ LET r == get_module_list(variant, modules, cb.use_only_mixup_modules) IN
        IF r.raises
        THEN /\ exc' = "ValueError"
             /\ pc' = "failed"
             /\ UNCHANGED module_list
        ELSE /\ module_list' = r.module_list
             /\ pc' = "idle"
             /\ UNCHANGED exc
    /\ UNCHANGED <<variant, sched, modules, loss0, loss_vars, cb, hooks, nhandles, batch_vars,
                   stack, nbatch, warnings, hist>>

\* on_train_begin: learn.loss_func = ManifoldMixupLoss(learn.loss_func)
on_train_begin ==
    /\ pc = "idle"
    /\ LET r == ManifoldMixupLoss(criterion) IN
        /\ loss_func' = r.adapter
        /\ criterion' = r.criterion
    /\ pc' = "ready"
    /\ exc' = "none"
    /\ UNCHANGED <<model_vars, cb, hooks, nhandles, batch_vars, stack, nbatch, warnings, hist>>

\* on_train_end: learn.loss_func = learn.loss_func.get_old()
\* (the training loop calls it when the run ends and when a batch raised)
on_train_end ==
    /\ pc \in {"ready", "raised"}
    /\ LET r == get_old(loss_func, criterion) IN
        /\ loss_func' = [NoAdapter EXCEPT !.kind = r.kind]
        /\ criterion' = r.criterion
    /\ pc' = "idle"
    /\ UNCHANGED <<model_vars, cb, hooks, nhandles, batch_vars, stack, nbatch, exc, warnings, hist>>

\* a lower end of the draw that allows input mixup whatever use_input_mixup says
minimum_module_index_ignoring_flag(c) == -1

\* minimum_module_index = -1 if self.use_input_mixup else 0
minimum_module_index(c) == IF c.use_input_mixup THEN -1 ELSE 0

\* np.random.randint(low, high): the values it can return, low included, high excluded
randint(low, high) == low..(high - 1)

\* torch.Tensor handle.remove(): deleting an id that is no longer registered is a no-op
RemoveHandle(hk, id) == SelectSeq(hk, LAMBDA r : r.id # id)

\* the hooks registered on module m, in registration order
HooksOn(hk, m) == SelectSeq(hk, LAMBDA r : r.module = m)

\* input mixup with the two weights exchanged: lam on the input itself
InputMixup_lam_on_own(inp, shuffle, lam) == Blend(Index(inp, shuffle), inp, lam)

\* (1 - input_lam) * last_input + input_lam * last_input[shuffle]
InputMixup(inp, shuffle, lam) == Blend(inp, Index(inp, shuffle), lam)

\* on_batch_begin for a training batch (the code after `if not train: return`).
\* draw: the beta draws, shuffle: randperm, k: the module index drawn.
on_batch_begin_train(c, hk, nh, mlist, inp, tgt, tr, draw, shuffle, k) ==
    LET lam == LamOf(draw)
        last_target2 == Index(tgt, shuffle)
    IN IF k = -1
       THEN [cb |-> [c EXCEPT !.lam = lam, !.is_input_mixup = "True"],
             hooks |-> hk,
             nhandles |-> nh,
             last_input |-> InputMixup(inp, shuffle, lam),
             last_target |-> <<tgt, last_target2, lam>>]
       ELSE [cb |-> [c EXCEPT !.lam = lam, !.is_input_mixup = "False",
                              !.input = Index(inp, shuffle),
                              !.mixup_hook = <<nh + 1>>],
             hooks |-> Append(hk, [id |-> nh + 1, module |-> mlist[k + 1]]),
             nhandles |-> nh + 1,
             last_input |-> inp,
             last_target |-> IF c.use_symmetric_batch
                             THEN <<tgt \o last_target2, last_target2 \o tgt, lam \o lam>>
                             ELSE <<tgt, last_target2, lam>>]

\* on_batch_begin without its `if not train: return`
on_batch_begin_any_phase(c, hk, nh, mlist, inp, tgt, tr, draw, shuffle, k) ==
    on_batch_begin_train(c, hk, nh, mlist, inp, tgt, tr, draw, shuffle, k)

\* on_batch_begin(last_input, last_target, train): the values the loop continues with
\* and what the call leaves in the callback and on the model
on_batch_begin(c, hk, nh, mlist, inp, tgt, tr, draw, shuffle, k) ==
    IF ~tr
    THEN [cb |-> c, hooks |-> hk, nhandles |-> nh, last_input |-> inp, last_target |-> <<tgt>>]
    ELSE on_batch_begin_train(c, hk, nh, mlist, inp, tgt, tr, draw, shuffle, k)

\* the training loop takes the next batch and calls on_batch_begin
BatchBegin ==
    /\ pc = "ready"
    /\ nbatch < MaxBatches
    /\ \E b \in BatchSizes, tr \in BOOLEAN :
       \E draw \in [1..b -> 0..LamDen], shuffle \in Perms(b),
          k \in randint(minimum_module_index(cb), Len(module_list)) :
        \* an evaluation batch draws nothing
        /\ ~tr => (draw = [i \in 1..b |-> 0] /\ shuffle = [i \in 1..b |-> i]
                   /\ k = minimum_module_index(cb))
        /\ LET r == on_batch_begin(cb, hooks, nhandles, module_list, SubSeq(BatchInput, 1, b),
                                   SubSeq(BatchTarget, 1, b), tr, draw, shuffle, k) IN
            /\ cb' = r.cb
            /\ hooks' = r.hooks
            /\ nhandles' = r.nhandles
            /\ last_input' = r.last_input
            /\ last_target' = r.last_target
        /\ train' = tr
        /\ hist' = [NoHist EXCEPT !.orig_input = SubSeq(BatchInput, 1, b),
                                  !.orig_target = SubSeq(BatchTarget, 1, b),
                                  !.nthird = hist.nthird,
                                  !.clean = (hooks = <<>> /\ cb.intermediate_output1 = None
                                             /\ cb.intermediate_output2 = None),
                                  !.k = IF tr THEN k ELSE -2,
                                  !.shuffle = IF tr THEN shuffle ELSE None]
    /\ last_output' = None
    /\ last_loss' = None
    /\ nbatch' = nbatch + 1
    /\ pc' = "batch"
    /\ UNCHANGED <<model_vars, loss_vars, stack, exc, warnings>>

\* ---- the forward pass ------------------------------------------------------
\* A frame of the call stack: an evaluation of the model (t = "eval": pos is the next
\* step of sched, x the activation so far, h > 0 the hook of the invoked module that
\* fires next) or a hook_mixup call waiting for its nested evaluation (t = "hook": x is
\* its `output` argument).
EvalFrame(x) == [t |-> "eval", pos |-> 1, h |-> 0, x |-> x]
HookFrame(x) == [t |-> "hook", pos |-> 0, h |-> 0, x |-> x]

Top == stack[Len(stack)]

Firing == pc = "forward" /\ Top.t = "eval" /\ Top.h >= 1

\* Module.__call__: after hook number f.h returned newx, the next hook of the module
\* fires on it, or the evaluation goes on to its next step
AfterHook(f, newx) ==
    IF f.h < Len(HooksOn(hooks, sched[f.pos]))
    THEN [f EXCEPT !.x = newx, !.h = f.h + 1]
    ELSE [f EXCEPT !.x = newx, !.pos = f.pos + 1, !.h = 0]

ReplaceTop(f) == SubSeq(stack, 1, Len(stack) - 1) \o <<f>>

\* number of model evaluations running
Depth(st) == Len(SelectSeq(st, LAMBDA f : f.t = "eval"))

\* the training loop runs the model on the batch: out = model(*xb)
ModelForward ==
    /\ pc = "batch"
    /\ pc' = "forward"
    /\ stack' = <<EvalFrame(last_input)>>
    /\ hist' = [hist EXCEPT !.nevals = 1]
    /\ UNCHANGED <<model_vars, loss_vars, cb, hooks, nhandles, batch_vars, nbatch, exc, warnings>>

\* the next module of the evaluation returns; its forward hooks fire on the result
CallModule ==
    /\ pc = "forward"
    /\ Top.t = "eval" /\ Top.h = 0 /\ Top.pos <= Len(sched)
    /\ LET y == ManifoldMixupModule_forward(modules, sched[Top.pos], Top.x) IN
        stack' = ReplaceTop(AfterHook(Top, y))
    /\ UNCHANGED <<model_vars, loss_vars, cb, hooks, nhandles, batch_vars, pc, nbatch, exc,
                   warnings, hist>>

\* a first branch that starts the nested call without filling the slot
start_nested_without_storing(c, output) == c

\* self.intermediate_output1 = output (interleaved: self.intermediate_output = output)
store_intermediate_output(c, output) == [c EXCEPT !.intermediate_output1 = output]

\* hook_mixup, first branch up to the nested call self.learn.model(self.input)
HookMixupFirst ==
    /\ Firing
    /\ cb.intermediate_output1 = None
    /\ cb' = store_intermediate_output(cb, Top.x)
    /\ stack' = stack \o <<HookFrame(Top.x), EvalFrame(cb.input)>>
    /\ hist' = [hist EXCEPT !.nevals = @ + 1,
                            !.maxdepth = Max(@, Depth(stack))]
    /\ UNCHANGED <<model_vars, loss_vars, hooks, nhandles, batch_vars, pc, nbatch, exc, warnings>>

\* hook_mixup, the branch that blends with the stored activation and returns
\* (manifold_mixup.py: `elif self.intermediate_output2 is None`; interleaved: `else`)
HookMixupSecond ==
    /\ Firing
    /\ cb.intermediate_output1 # None
    /\ variant = "basic" => cb.intermediate_output2 = None
    /\ IF Broadcastable(Top.x, cb.intermediate_output1, cb.lam)
       THEN LET new_output == Blend(Top.x, cb.intermediate_output1, cb.lam) IN
            /\ stack' = ReplaceTop(AfterHook(Top, new_output))
            /\ hist' = [hist EXCEPT
                    !.firings = Append(@, [d |-> Depth(stack) - 1, out |-> Top.x,
                                           other |-> cb.intermediate_output1,
                                           ret |-> new_output])]
            /\ cb' = IF variant = "basic"
                     THEN [cb EXCEPT !.intermediate_output2 = Top.x]
                     ELSE [cb EXCEPT !.intermediate_output1 = Top.x]
            /\ UNCHANGED <<pc, exc>>
       ELSE \* the slot kept by an earlier batch has another batch size
            /\ cb' = IF variant = "basic"
                     THEN [cb EXCEPT !.intermediate_output2 = Top.x]
                     ELSE cb
            /\ exc' = "RuntimeError"
            /\ pc' = "raised"
            /\ stack' = <<>>
            /\ UNCHANGED hist
    /\ UNCHANGED <<model_vars, loss_vars, hooks, nhandles, batch_vars, nbatch, warnings>>

\* a third branch that warns whether or not it warned before
warn_every_time(c, n) == n + 1

\* `elif not self._warning_raised: warnings.warn(...)`: the warnings emitted so far
warn_once(c, n) == IF c.warning_raised THEN n ELSE n + 1

\* hook_mixup of manifold_mixup.py with both slots filled: warns once, then
\* `return new_output` reads a local that no branch assigned (UnboundLocalError)
HookMixupThird ==
    /\ Firing
    /\ variant = "basic"
    /\ cb.intermediate_output1 # None /\ cb.intermediate_output2 # None
    /\ cb' = [cb EXCEPT !.warning_raised = TRUE]
    /\ warnings' = warn_once(cb, warnings)
    /\ hist' = [hist EXCEPT !.nthird = @ + 1]
    /\ exc' = "UnboundLocalError"
    /\ pc' = "raised"
    /\ stack' = <<>>
    /\ UNCHANGED <<model_vars, loss_vars, hooks, nhandles, batch_vars, nbatch>>

\* hook_mixup, first branch after the nested call returned: self.output = <its value>,
\* then the blend with the activation the nested evaluation left behind
HookMixupResume ==
    /\ pc = "forward"
    /\ Top.t = "eval" /\ Top.h = 0 /\ Top.pos > Len(sched)
    /\ Len(stack) >= 3
    /\ LET hf == stack[Len(stack) - 1]
           ef == stack[Len(stack) - 2]
           other == IF variant = "basic" THEN cb.intermediate_output2
                    ELSE cb.intermediate_output1
           new_output == Blend(hf.x, other, cb.lam)
       IN IF ~Broadcastable(hf.x, hf.x, cb.lam)
          THEN \* output * (1 - lam), evaluated first: lam is of another batch size
               /\ cb' = [cb EXCEPT !.output = Top.x]
               /\ exc' = "RuntimeError"
               /\ pc' = "raised"
               /\ stack' = <<>>
               /\ hist' = [hist EXCEPT !.ndone = @ + 1, !.nested_ret = Top.x]
          ELSE IF other = None
          THEN \* ... + None * lam
               /\ cb' = [cb EXCEPT !.output = Top.x]
               /\ exc' = "TypeError"
               /\ pc' = "raised"
               /\ stack' = <<>>
               /\ hist' = [hist EXCEPT !.ndone = @ + 1, !.nested_ret = Top.x]
          ELSE IF ~Broadcastable(hf.x, other, cb.lam)
          THEN /\ cb' = [cb EXCEPT !.output = Top.x]
               /\ exc' = "RuntimeError"
               /\ pc' = "raised"
               /\ stack' = <<>>
               /\ hist' = [hist EXCEPT !.ndone = @ + 1, !.nested_ret = Top.x]
          ELSE /\ cb' = IF variant = "basic"
                        THEN [cb EXCEPT !.output = Top.x]
                        ELSE [cb EXCEPT !.output = Top.x, !.intermediate_output1 = None]
               /\ stack' = SubSeq(stack, 1, Len(stack) - 3) \o <<AfterHook(ef, new_output)>>
               /\ hist' = [hist EXCEPT
                       !.ndone = @ + 1, !.nested_ret = Top.x,
                       !.firings = Append(@, [d |-> Depth(stack) - 2, out |-> hf.x,
                                              other |-> other, ret |-> new_output])]
               /\ UNCHANGED <<pc, exc>>
    /\ UNCHANGED <<model_vars, loss_vars, hooks, nhandles, batch_vars, nbatch, warnings>>

\* the outer evaluation returns to the training loop
ForwardDone ==
    /\ pc = "forward"
    /\ Top.t = "eval" /\ Top.h = 0 /\ Top.pos > Len(sched)
    /\ Len(stack) = 1
    /\ last_output' = Top.x
    /\ stack' = <<>>
    /\ pc' = "loss"
    /\ hist' = [hist EXCEPT !.ndone = @ + 1]
    /\ UNCHANGED <<model_vars, loss_vars, cb, hooks, nhandles, train, last_input, last_target,
                   last_loss, nbatch, exc, warnings>>

\* the model itself raises during an evaluation (out of memory, interrupt, ...):
\* the exception leaves the forward pass and the training loop
ModelRaises ==
    /\ pc = "forward"
    /\ pc' = "raised"
    /\ exc' = "ModelError"
    /\ stack' = <<>>
    /\ UNCHANGED <<model_vars, loss_vars, cb, hooks, nhandles, batch_vars, nbatch, warnings, hist>>

\* ---- on_loss_begin ----------------------------------------------------------
\* on_loss_begin(last_output, train): what it returns (ret = FALSE: returns None, the
\* loop keeps last_output), raises, and leaves in the callback and on the model
on_loss_begin(c, hk, var, out, tr) ==
    IF (~tr) \/ c.is_input_mixup = "True"
    THEN [exc |-> "none", ret |-> FALSE, last_output |-> out, cb |-> c, hooks |-> hk]
    ELSE IF c.mixup_hook = None
    THEN [exc |-> "AttributeError", ret |-> FALSE, last_output |-> out, cb |-> c, hooks |-> hk]
    ELSE LET hk2 == RemoveHandle(hk, c.mixup_hook[1])
             c2 == IF var = "basic"
                   THEN [c EXCEPT !.intermediate_output1 = None,
                                  !.intermediate_output2 = None]
                   ELSE c
         IN IF c.use_symmetric_batch
            THEN IF c.output = None
                 THEN [exc |-> "TypeError", ret |-> FALSE, last_output |-> out,
                       cb |-> c2, hooks |-> hk2]
                 ELSE [exc |-> "none", ret |-> TRUE, last_output |-> out \o c.output,
                       cb |-> c2, hooks |-> hk2]
            ELSE [exc |-> "none", ret |-> FALSE, last_output |-> out, cb |-> c2, hooks |-> hk2]

\* the training loop calls on_loss_begin on the output of the forward pass
OnLossBegin ==
    /\ pc = "loss"
    /\ LET r == on_loss_begin(cb, hooks, variant, last_output, train) IN
        /\ cb' = r.cb
        /\ hooks' = r.hooks
        /\ last_output' = r.last_output
        /\ exc' = r.exc
        /\ pc' = IF r.exc = "none" THEN "loss_func" ELSE "raised"
        /\ hist' = [hist EXCEPT !.finished = (r.exc = "none")]
    /\ UNCHANGED <<model_vars, loss_vars, nhandles, train, last_input, last_target, last_loss,
                   stack, nbatch, warnings>>

\* the training loop computes the loss of the batch: loss = loss_func(out, *yb)
LossFunc ==
    /\ pc = "loss_func"
    /\ LET r == IF loss_func.kind = "ManifoldMixupLoss"
                THEN ManifoldMixupLoss_forward(loss_func, last_output, last_target)
                ELSE criterion_forward(criterion, last_output, last_target[1])
       IN IF r.raises
          THEN /\ exc' = "RuntimeError"
               /\ pc' = "raised"
               /\ UNCHANGED last_loss
          ELSE /\ last_loss' = r.loss
               /\ pc' = "ready"
               /\ UNCHANGED exc
    /\ UNCHANGED <<model_vars, loss_vars, cb, hooks, nhandles, train, last_input, last_target,
                   last_output, stack, nbatch, warnings, hist>>

Next ==
    \/ on_train_begin
    \/ on_train_end
    \/ BatchBegin
    \/ ModelForward
    \/ CallModule
    \/ HookMixupFirst
    \/ HookMixupSecond
    \/ HookMixupThird
    \/ HookMixupResume
    \/ ForwardDone
    \/ ModelRaises
    \/ OnLossBegin
    \/ LossFunc

Spec == Init /\ [][Next]_vars

SpecLoss == InitLoss /\ [][Next]_vars

\* a step of the forward pass: the interpreter runs a call that was started until it
\* returns or raises
ForwardStep ==
    \/ CallModule
    \/ HookMixupFirst
    \/ HookMixupSecond
    \/ HookMixupThird
    \/ HookMixupResume
    \/ ForwardDone

SpecLive == Init /\ [][Next]_vars /\ WF_vars(ForwardStep)

\* the program from the construction of the callback on
NextBuild == Construct \/ Next

SpecBuild == InitBuild /\ [][NextBuild]_vars

\* ---- the batch under observation -----------------------------------------
\* the current batch is a training batch that selected a candidate module (k >= 0)
ModuleMixupBatch == train /\ hist.k >= 0

\* the current batch is a training batch that mixes the input (k = -1)
InputMixupBatch == train /\ hist.k = -1

\* the module the current batch selected
Selected == module_list[hist.k + 1]

\* number of times one evaluation of the model invokes module m
Invocations(m) == Cardinality({i \in 1..Len(sched) : sched[i] = m})

\* the forward pass of the current batch was ended by an error of hook_mixup
HookError == pc = "raised" /\ last_output = None /\ exc \in {"UnboundLocalError", "TypeError", "RuntimeError"}

\* C1: when a batch's on_batch_begin is about to run (the loop is ready for the next
\* batch), no forward hook of an earlier batch is installed on the model, also after
\* a batch whose forward pass raised.
C1_NoHookAtBatchBegin == pc = "ready" => hooks = <<>>

\* C2: in a module-mixup training batch whose selected module is invoked once per
\* evaluation, the forward call makes two evaluations and two hook firings and no
\* more, hook_mixup raises nothing, the nested firing returns first and blends B
\* with A, the outer firing returns after the nested evaluation completed and blends
\* A with B, and self.output is the value the nested evaluation returned.
C2_TwoEvaluationsTwoFirings ==
    (ModuleMixupBatch /\ Invocations(Selected) = 1) =>
        /\ hist.nevals <= 2 /\ Len(hist.firings) <= 2
        /\ ~HookError
        /\ pc = "loss" =>
            /\ hist.nevals = 2 /\ hist.ndone = 2 /\ hist.maxdepth = 1
            /\ Len(hist.firings) = 2
            /\ hist.firings[1].d = 1 /\ hist.firings[2].d = 0
            /\ hist.firings[1].ret = Blend(hist.firings[1].out, hist.firings[2].out, cb.lam)
            /\ hist.firings[2].ret = Blend(hist.firings[2].out, hist.firings[1].out, cb.lam)
            /\ cb.output = hist.nested_ret /\ cb.output # None

\* the same, for batches that start with no hook and no activation left behind by an
\* earlier batch; holds, and shows that C2 fails only after a forward pass that raised
C2_WhenNothingLeftBehind ==
    (ModuleMixupBatch /\ Invocations(Selected) = 1 /\ hist.clean) =>
        /\ hist.nevals <= 2 /\ Len(hist.firings) <= 2
        /\ ~HookError
        /\ pc = "loss" =>
            /\ hist.nevals = 2 /\ hist.ndone = 2 /\ hist.maxdepth = 1
            /\ Len(hist.firings) = 2
            /\ hist.firings[1].d = 1 /\ hist.firings[2].d = 0
            /\ hist.firings[1].ret = Blend(hist.firings[1].out, hist.firings[2].out, cb.lam)
            /\ hist.firings[2].ret = Blend(hist.firings[2].out, hist.firings[1].out, cb.lam)
            /\ cb.output = hist.nested_ret /\ cb.output # None

\* C3: in the two-slot variant a firing of hook_mixup with both slots filled raises
\* nothing, mixes nothing and hands the module's activation on unchanged.
C3_ThirdFiringPassesThrough ==
    [][HookMixupThird =>
        /\ pc' = "forward" /\ exc' = exc
        /\ stack' = ReplaceTop(AfterHook(Top, Top.x))
        /\ cb'.intermediate_output1 = cb.intermediate_output1
        /\ cb'.intermediate_output2 = cb.intermediate_output2]_vars

\* C4: on_batch_begin and on_loss_begin of a non-training batch return the input,
\* target and output they were given, install no hook and change no field of the
\* callback, whatever earlier batches left behind.
C4_EvalBatchIsNoOp ==
    [][/\ (pc = "ready" /\ pc' = "batch" /\ ~train') =>
            /\ cb' = cb /\ hooks' = hooks /\ nhandles' = nhandles
            /\ last_input' = hist'.orig_input /\ last_target' = <<hist'.orig_target>>
       /\ (pc = "loss" /\ pc' # "loss" /\ ~train) =>
            /\ cb' = cb /\ hooks' = hooks
            /\ last_output' = last_output /\ exc' = "none"]_vars

\* an evaluation batch went through both handlers after a training batch had left
\* its values in the callback
C4_Witness ==
    /\ pc = "ready" /\ ~train /\ hist.finished
    /\ cb.lam # None /\ cb.output # None /\ cb.mixup_hook # None

\* C5: when on_loss_begin is called a second time for the same training batch, on the
\* output the first call returned, it raises nothing and returns that output as it
\* is: the cached output B is not appended again.
C5_LossBeginTwiceAppendsOnce ==
    (pc = "loss" /\ train) =>
        LET r1 == on_loss_begin(cb, hooks, variant, last_output, train)
            r2 == on_loss_begin(r1.cb, r1.hooks, variant, r1.last_output, train)
        IN r1.exc = "none" => (r2.exc = "none" /\ r2.last_output = r1.last_output)

\* C6: in symmetric mode a module-mixup batch gets the target triple
\* (target ++ shuffled, shuffled ++ target, lam ++ lam), every component of length
\* 2B, and on_loss_begin returns the external output followed by the output of this
\* batch's nested evaluation, of leading dimension 2B.
C6_SymmetricDoubles ==
    (ModuleMixupBatch /\ cb.use_symmetric_batch /\ pc \in {"batch", "forward", "loss"}) =>
        LET t2 == Index(hist.orig_target, hist.shuffle) IN
        /\ last_target = <<hist.orig_target \o t2, t2 \o hist.orig_target, cb.lam \o cb.lam>>
        /\ \A j \in 1..3 : Len(last_target[j]) = 2 * Len(hist.orig_input)
        /\ pc = "loss" =>
            LET r == on_loss_begin(cb, hooks, variant, last_output, train) IN
            /\ r.exc = "none" /\ r.ret
            /\ r.last_output = last_output \o hist.nested_ret
            /\ Len(r.last_output) = 2 * Len(hist.orig_input)

\* C7: once on_loss_begin of a module-mixup training batch has returned, the
\* activation slots, the hook reference and the cached output B hold nothing.
C7_TransientStateReset ==
    (ModuleMixupBatch /\ hist.finished /\ pc \in {"ready", "idle"}) =>
        /\ cb.intermediate_output1 = None /\ cb.intermediate_output2 = None
        /\ cb.mixup_hook = None
        /\ cb.output = None

\* C8: between on_batch_begin and on_loss_begin of a training batch either the input
\* was mixed and no forward hook is installed, or the input is as given and exactly
\* one forward hook is installed, on the selected module.
C8_ExactlyOneMixupActive ==
    (train /\ pc \in {"batch", "forward", "loss"}) =>
        \/ /\ cb.is_input_mixup = "True" /\ hist.k = -1
           /\ last_input = InputMixup(hist.orig_input, hist.shuffle, cb.lam)
           /\ hooks = <<>>
        \/ /\ cb.is_input_mixup = "False" /\ hist.k >= 0
           /\ last_input = hist.orig_input
           /\ Len(hooks) = 1 /\ hooks[1].module = Selected

\* C9: whenever no training run is in progress, learn.loss_func is the loss function
\* the Learner was given, with the reduction setting it had.
C9_LossRestored == pc = "idle" => (loss_func.kind = "criterion" /\ criterion = loss0)

\* a run with batches has ended on a loss function whose reduction is 'sum'
C9_Witness ==
    /\ pc = "idle" /\ nbatch >= 1 /\ hist.finished
    /\ criterion.has_reduction /\ criterion.reduction = "sum"

\* the current batch mixes the input with every weight equal to 1
DegenerateInputMixup ==
    /\ InputMixupBatch /\ pc = "batch"
    /\ \A i \in 1..Len(cb.lam) : cb.lam[i] = LamDen

\* C10 as stated: with lam = 1 everywhere, input mixup returns the input it was given.
C10_DegenerateLamKeepsInput == DegenerateInputMixup => last_input = hist.orig_input

\* C10 amended: with lam = 1 everywhere, input mixup returns the permuted companion
\* last_input[shuffle]; the input's own weight 1 - lam is 0.
C10_DegenerateLamGivesCompanion ==
    DegenerateInputMixup => last_input = Index(hist.orig_input, hist.shuffle)

\* a degenerate input mixup whose permutation moves a sample
C10_Witness ==
    /\ DegenerateInputMixup
    /\ Index(hist.orig_input, hist.shuffle) # hist.orig_input

\* C11: the module index drawn by on_batch_begin of a training batch lies in
\* 0..len(module_list)-1 when use_input_mixup is false, so the batch installs a hook
\* on module_list[k], and in -1..len(module_list)-1 when use_input_mixup is true.
C11_ModuleIndexInRange ==
    (train /\ pc = "batch") =>
        /\ hist.k >= (IF cb.use_input_mixup THEN -1 ELSE 0)
        /\ hist.k <= Len(module_list) - 1
        /\ ~cb.use_input_mixup =>
            /\ hist.k # -1
            /\ hooks # <<>>
            /\ hooks[Len(hooks)] = [id |-> nhandles, module |-> module_list[hist.k + 1]]

\* without input mixup the last candidate module was drawn and carries the hook
C11_Witness ==
    /\ train /\ pc = "batch" /\ ~cb.use_input_mixup
    /\ hist.k = Len(module_list) - 1
    /\ hooks = <<[id |-> nhandles, module |-> module_list[Len(module_list)]]>>

\* every index of the range is a possible draw: these states are all reachable
C11_DrawnInputMixup == train /\ pc = "batch" /\ cb.use_input_mixup /\ hist.k = -1
C11_DrawnFirstModule == train /\ pc = "batch" /\ cb.use_input_mixup /\ hist.k = 0
C11_DrawnLastModule ==
    train /\ pc = "batch" /\ cb.use_input_mixup /\ hist.k = Len(module_list) - 1
C11_DrawnFirstModuleOnly == train /\ pc = "batch" /\ ~cb.use_input_mixup /\ hist.k = 0

\* C12: over a whole run of the two-slot variant the 'used more than once in forward
\* pass' warning was emitted exactly once if a firing found both slots filled, and
\* never more than once, however many such firings and batches there were.
C12_WarnedOnceForTheRun ==
    /\ warnings <= 1
    /\ warnings = 1 <=> hist.nthird >= 1

\* two batches of the run each had a firing that found both slots filled
C12_Witness == hist.nthird >= 2 /\ nbatch >= 2 /\ warnings = 1

\* the modules the selection policy of the constructed variant admits
CandidateSet ==
    {j \in 0..(Len(modules) - 1) :
        IF cb.use_only_mixup_modules
        THEN modules[j + 1] = "ManifoldMixupModule"
        ELSE variant = "interleaved" \/ modules[j + 1] \notin non_mixable_module_types}

\* C13: constructing the callback fails with ValueError exactly when the candidate
\* module set of the model under the selection flag is empty; every instance that
\* exists has a non-empty module_list, and nothing changes module_list afterwards.
C13_ConstructionFailsIffEmpty ==
    /\ [](pc # "new" =>
            /\ pc = "failed" <=> CandidateSet = {}
            /\ pc = "failed" => exc = "ValueError" /\ hooks = <<>> /\ nbatch = 0
            /\ pc # "failed" =>
                /\ module_list # <<>>
                /\ {module_list[i] : i \in 1..Len(module_list)} = CandidateSet)
    /\ [][pc # "new" => module_list' = module_list]_vars

\* construction failed under the default policy: every module of the model is of a
\* blocklisted kind
C13_Witness == pc = "failed" /\ exc = "ValueError" /\ ~cb.use_only_mixup_modules

\* a callback constructed with the tagged-only policy has been through a batch
C13_WitnessConstructed ==
    /\ pc = "ready" /\ hist.finished /\ cb.use_only_mixup_modules
    /\ Len(module_list) = 1

\* C14: in both variants the candidate list built at construction is, in traversal
\* order, the ManifoldMixupModule wrappers under the tagged-only policy and the
\* modules of a kind outside the blocklist otherwise; no hook is ever installed on a
\* blocklisted module.
C14_CandidatesAreFiltered ==
    pc \notin {"new", "failed"} =>
        /\ module_list =
              IF cb.use_only_mixup_modules
              THEN SelectSeq(ModuleIds(modules), LAMBDA j : modules[j + 1] = "ManifoldMixupModule")
              ELSE SelectSeq(ModuleIds(modules),
                             LAMBDA j : modules[j + 1] \notin non_mixable_module_types)
        /\ \A i \in 1..Len(hooks) :
              modules[hooks[i].module + 1] \notin non_mixable_module_types

\* the same for the two-slot variant alone; holds
C14_TwoSlotCandidatesAreFiltered == variant = "basic" => C14_CandidatesAreFiltered

\* C15: for a training batch of B samples the stored lam has length B, the weight
\* vector of the returned target triple has length B, or 2B being lam ++ lam for
\* symmetric module mixup, and every element is max(x, 1 - x) of a draw x in [0, 1],
\* hence in [0.5, 1].
C15_LamLengthAndRange ==
    (train /\ pc \in {"batch", "forward", "loss"}) =>
        LET B == Len(hist.orig_target)
            doubled == hist.k >= 0 /\ cb.use_symmetric_batch
        IN /\ Len(cb.lam) = B
           /\ Len(last_target) = 3
           /\ Len(last_target[3]) = IF doubled THEN 2 * B ELSE B
           /\ last_target[3] = IF doubled THEN cb.lam \o cb.lam ELSE cb.lam
           /\ \E x \in [1..B -> 0..LamDen] :
                 \A i \in 1..B : cb.lam[i] = Max(x[i], LamDen - x[i])
           /\ \A i \in 1..B : 2 * cb.lam[i] >= LamDen /\ cb.lam[i] <= LamDen

\* a symmetric module-mixup batch of full size whose weights are not all equal
C15_Witness ==
    /\ train /\ pc = "batch" /\ hist.k >= 0 /\ cb.use_symmetric_batch
    /\ Len(cb.lam) = BatchSize /\ Len(last_target[3]) = 2 * BatchSize
    /\ cb.lam[1] = LamDen /\ cb.lam[BatchSize] < LamDen

\* C16: a forward pass with the hook armed terminates, and at most one model
\* evaluation started by hook_mixup is running at any time, however often an
\* evaluation invokes the selected module: a firing inside the nested evaluation
\* never starts another evaluation.
C16_ForwardTerminatesAtDepthOne ==
    /\ [](pc = "forward" => (Depth(stack) <= 2 /\ hist.maxdepth <= 1))
    /\ [][HookMixupFirst => (Depth(stack) = 1 /\ Depth(stack') = 2)]_vars
    /\ (pc = "forward") ~> (pc # "forward")

\* the forward pass of a batch whose selected module is invoked twice per evaluation
\* has returned after nested evaluations in which the hook fired twice
C16_Witness ==
    /\ pc = "loss" /\ ModuleMixupBatch /\ Invocations(Selected) = 2
    /\ hist.nevals >= 2 /\ hist.ndone = hist.nevals /\ hist.maxdepth = 1
    /\ Len(hist.firings) >= 4

\* the output of the model on input x from step pos on, no hook installed
RECURSIVE RunModel(_, _)
RunModel(x, pos) ==
    IF pos > Len(sched) THEN x
    ELSE RunModel(ManifoldMixupModule_forward(modules, sched[pos], x), pos + 1)

\* the output of the model on sample i of the batch as the data loader gave it
PlainOutput(i) == RunModel(<<hist.orig_input[i]>>, 1)[1]

\* row r of the output handed to the loss: the sample it is computed from, the
\* companion it is mixed with, and the index of its weight in lam
OwnSample(r) ==
    LET B == Len(hist.orig_input) IN IF r <= B THEN r ELSE hist.shuffle[r - B]
Companion(r) ==
    LET B == Len(hist.orig_input) IN IF r <= B THEN hist.shuffle[r] ELSE r - B
WeightIndex(r) ==
    LET B == Len(hist.orig_input) IN IF r <= B THEN r ELSE r - B

\* the batch mixes along the paths of the method only: the input, with no hook of an
\* earlier batch on the model, or the activation of a module invoked once
MixesAsDesigned ==
    \/ InputMixupBatch /\ hooks = <<>>
    \/ ModuleMixupBatch /\ Invocations(Selected) = 1 /\ hist.clean

\* C17: the weights are used the same way on every mixing path and in the loss.  In
\* every blend of hook_mixup the firing's own activation has weight 1 - lam and the
\* stored one lam; the nested evaluation runs on input[shuffle], and the first target
\* is the label of the evaluation's own sample in both halves.  For every row of the output handed to the loss (input mixup, the
\* outer blend, and the nested blend that forms the second half in symmetric mode)
\* the row is computed from its own sample with weight 1 - lam and from its companion
\* with weight lam, the first target is the own sample's label and the second the
\* companion's, and the loss weighs the loss against the first target with 1 - lam
\* and the loss against the second with lam.
C17_UniformLamConvention ==
    /\ (train /\ pc \in {"forward", "loss", "loss_func"}) =>
            \A n \in 1..Len(hist.firings) :
                hist.firings[n].ret
                    = Blend(hist.firings[n].out, hist.firings[n].other, cb.lam)
    /\ (ModuleMixupBatch /\ pc \in {"batch", "forward", "loss", "loss_func"}) =>
            LET B == Len(hist.orig_input)
                t2 == Index(hist.orig_target, hist.shuffle)
            IN /\ cb.input = Index(hist.orig_input, hist.shuffle)
               /\ SubSeq(last_target[1], 1, B) = hist.orig_target
               /\ SubSeq(last_target[2], 1, B) = t2
               /\ SubSeq(last_target[3], 1, B) = cb.lam
               /\ cb.use_symmetric_batch =>
                    /\ SubSeq(last_target[1], B + 1, 2 * B) = t2
                    /\ SubSeq(last_target[2], B + 1, 2 * B) = hist.orig_target
                    /\ SubSeq(last_target[3], B + 1, 2 * B) = cb.lam
    /\ (train /\ pc = "loss_func" /\ MixesAsDesigned) =>
            LET l == finalLoss(last_output, last_target) IN
            /\ ~l.raises
            /\ Len(last_output) = Len(last_target[1])
            /\ \A r \in 1..Len(last_output) :
                LET w == cb.lam[WeightIndex(r)]
                    t1 == hist.orig_target[OwnSample(r)]
                    t2 == hist.orig_target[Companion(r)]
                IN /\ last_output[r]
                        = BlendSample(PlainOutput(OwnSample(r)), PlainOutput(Companion(r)), w)
                   /\ last_target[1][r] = t1 /\ last_target[2][r] = t2
                   /\ last_target[3][r] = w
                   /\ l.val[r] = BlendSample(criterion_none(<<last_output[r]>>, <<t1>>).val[1],
                                             criterion_none(<<last_output[r]>>, <<t2>>).val[1], w)

\* a symmetric module-mixup batch reached the loss with unequal weights below 1 and a
\* permutation that moves the samples
C17_Witness ==
    /\ train /\ pc = "loss_func" /\ ModuleMixupBatch /\ MixesAsDesigned
    /\ cb.use_symmetric_batch /\ Len(last_output) = 2 * BatchSize
    /\ hist.shuffle[1] # 1
    /\ cb.lam[1] < LamDen /\ cb.lam[BatchSize] = LamDen

\* an input-mixup batch reached the loss with a weight below 1
C17_WitnessInputMixup ==
    /\ train /\ pc = "loss_func" /\ InputMixupBatch /\ MixesAsDesigned
    /\ hist.shuffle[1] # 1 /\ cb.lam[1] < LamDen

\* C18: for every training batch the leading dimension of the output handed to the
\* loss after on_loss_begin equals the length of both target components and of the
\* weight vector returned by on_batch_begin for that batch.
C18_OutputMatchesTargets ==
    (train /\ pc = "loss_func") =>
        /\ Len(last_output) = Len(last_target[1])
        /\ Len(last_output) = Len(last_target[2])
        /\ Len(last_output) = Len(last_target[3])

\* the same for the batches that start with nothing left behind by a batch whose
\* forward pass raised and that append this batch's nested output; holds
C18_WhenOutputIsOfThisBatch ==
    (train /\ pc = "loss_func" /\ hist.clean
        /\ (ModuleMixupBatch /\ cb.use_symmetric_batch => cb.output = hist.nested_ret)) =>
        /\ Len(last_output) = Len(last_target[1])
        /\ Len(last_output) = Len(last_target[2])
        /\ Len(last_output) = Len(last_target[3])

\* a batch that started with nothing left behind hands the loss an output whose leading
\* dimension is not that of its targets: it appended the output of an earlier batch of
\* another size
C18_StaleOutputOfOtherSize ==
    /\ train /\ pc = "loss_func" /\ hist.clean /\ nbatch = 2
    /\ Len(last_output) # Len(last_target[1])

\* C19: in symmetric mode, for a module-mixup training batch and whichever candidate
\* module was selected, on_loss_begin raises nothing and appends to the external
\* output the value returned by the nested evaluation of this batch, never a value
\* an earlier batch left in self.output and never the unset value.
C19_AppendsThisBatchNestedOutput ==
    (ModuleMixupBatch /\ cb.use_symmetric_batch /\ pc = "loss") =>
        LET r == on_loss_begin(cb, hooks, variant, last_output, train) IN
        /\ hist.nested_ret # None
        /\ cb.output = hist.nested_ret
        /\ r.exc = "none"
        /\ r.last_output = last_output \o hist.nested_ret

\* the same for a batch that starts with nothing left behind and whose selected module
\* the model invokes; holds
C19_WhenSelectedModuleIsInvoked ==
    (ModuleMixupBatch /\ cb.use_symmetric_batch /\ pc = "loss"
        /\ Invocations(Selected) >= 1 /\ hist.clean) =>
        LET r == on_loss_begin(cb, hooks, variant, last_output, train) IN
        /\ hist.nested_ret # None
        /\ cb.output = hist.nested_ret
        /\ r.exc = "none"
        /\ r.last_output = last_output \o hist.nested_ret

\* a batch whose selected module is not invoked appends the output of an earlier batch
C19_StaleOutputAppended ==
    /\ ModuleMixupBatch /\ cb.use_symmetric_batch /\ pc = "loss_func"
    /\ hist.nested_ret = None /\ hist.nevals = 1
    /\ Len(last_output) > Len(hist.orig_input)

\* the two losses of a batch are the same tensor
SameLoss(a, b) == a[1] = b[1] /\ a[2] = b[2]

\* C20: while the adapter is installed, the loss computed for a batch with a single
\* plain target (an evaluation batch) is what the loss function the Learner was given
\* returns with its own reduction setting, for the reductions mean, sum and none.
C20_PlainLossIsOriginalLoss ==
    (~train /\ pc = "ready" /\ last_loss # None /\ loss_func.kind = "ManifoldMixupLoss"
        /\ loss0.has_reduction) =>
        SameLoss(last_loss, criterion_forward(loss0, last_output, last_target[1]).loss)

\* the same for a loss function whose own reduction is 'mean', or that has no
\* reduction attribute and reduces by its default; holds
C20_MeanLossIsOriginalLoss ==
    (~train /\ pc = "ready" /\ last_loss # None /\ loss_func.kind = "ManifoldMixupLoss"
        /\ reduction_of(loss0) = "mean") =>
        SameLoss(last_loss, criterion_forward(loss0, last_output, last_target[1]).loss)

\* while the adapter is installed the criterion it calls reduces with 'none'
AdapterCriterionIsUnreduced ==
    (loss_func.kind = "ManifoldMixupLoss" /\ loss_func.uses = "criterion") =>
        criterion.reduction = "none"
====
